---- MODULE Spec2Model ----
(***************************************************************************)
(* JARVIS AI backend (src/backend/server.js): the POST /api/chat handler   *)
(* with its rate limiter, message validation, provider registry, provider  *)
(* adapters and failover loop, as a state machine.                         *)
(*                                                                         *)
(* JavaScript values are tagged records: [t |-> "undefined"],              *)
(* [t |-> "string", s |-> ...], [t |-> "number", n |-> ...],               *)
(* [t |-> "array", a |-> <<...>>], [t |-> "object", f |-> [key |-> value]].*)
(* A request suspends only at its upstream fetch; everything between two   *)
(* suspensions is one action.                                              *)
(***************************************************************************)
EXTENDS Integers, Sequences, FiniteSets, TLC

(***************************************************************************)
(* Bounds of the model and constants of the program.                       *)
(***************************************************************************)
\* requests the environment sends per client between two clears, in Spec
MaxArrivals == 1
\* requests handled at the same time, in SpecConc
NumReqs == 2
\* if (count > 60)
RateLimit == 60
\* if (message.length > 10000)
MaxMessageLength == 10000
\* if (response && response.length > 10)
MinResponseLength == 10
\* p.key.length > 10
MinKeyLength == 10
\* history.slice(-6)
HistoryWindow == 6
\* timeout: 30000
FetchTimeout == 30000

(***************************************************************************)
(* JavaScript values.                                                      *)
(***************************************************************************)
Undef == [t |-> "undefined"]
JNull == [t |-> "null"]
JStr(s) == [t |-> "string", s |-> s]
JNum(n) == [t |-> "number", n |-> n]
JArr(a) == [t |-> "array", a |-> a]
JObj(f) == [t |-> "object", f |-> f]
JBool(b) == [t |-> "boolean", b |-> b]
\* a number with a fraction, by its digits
JDec(d) == [t |-> "decimal", d |-> d]
\* the result of arithmetic on undefined
NaN == [t |-> "NaN"]

\* !!v
Truthy(v) ==
    CASE v.t = "undefined" -> FALSE
      [] v.t = "null" -> FALSE
      [] v.t = "string" -> v.s # ""
      [] v.t = "number" -> v.n # 0
      [] v.t = "NaN" -> FALSE
      [] v.t = "boolean" -> v.b
      [] OTHER -> TRUE

\* v.k throws a TypeError on undefined and null
Nullish(v) == v.t \in {"undefined", "null"}

\* v.k, for a v that is not nullish
Get(v, k) ==
    CASE v.t = "object" -> IF k \in DOMAIN v.f THEN v.f[k] ELSE Undef
      [] v.t = "array" /\ k = "length" -> JNum(Len(v.a))
      [] v.t = "string" /\ k = "length" -> JNum(Len(v.s))
      [] OTHER -> Undef

\* v[0], for a v that is not nullish
First(v) ==
    CASE v.t = "array" -> IF Len(v.a) > 0 THEN v.a[1] ELSE Undef
      [] v.t = "object" -> IF "0" \in DOMAIN v.f THEN v.f["0"] ELSE Undef
      [] v.t = "string" -> IF Len(v.s) > 0 THEN JStr(SubSeq(v.s, 1, 1)) ELSE Undef
      [] OTHER -> Undef

\* v.length > n: a comparison with undefined is false
LengthOver(v, n) ==
    LET l == Get(v, "length") IN l.t = "number" /\ l.n > n

(***************************************************************************)
(* Strings: toLowerCase() and split('-')[0].                               *)
(***************************************************************************)
Upper == "ABCDEFGHIJKLMNOPQRSTUVWXYZ"
Lower == "abcdefghijklmnopqrstuvwxyz"

LowerChar(c) ==
    IF \E i \in 1..Len(Upper) : SubSeq(Upper, i, i) = c
    THEN LET i == CHOOSE j \in 1..Len(Upper) : SubSeq(Upper, j, j) = c
         IN  SubSeq(Lower, i, i)
    ELSE c

RECURSIVE toLowerCase(_)
toLowerCase(s) ==
    IF Len(s) = 0 THEN ""
    ELSE LowerChar(SubSeq(s, 1, 1)) \o toLowerCase(SubSeq(s, 2, Len(s)))

\* s.split(sep)[0], sep one character
RECURSIVE splitFirst(_, _)
splitFirst(s, sep) ==
    IF Len(s) = 0 \/ SubSeq(s, 1, 1) = sep THEN ""
    ELSE SubSeq(s, 1, 1) \o splitFirst(SubSeq(s, 2, Len(s)), sep)

\* s.includes(sub)
Contains(s, sub) ==
    \E k \in 1..(Len(s) - Len(sub) + 1) : SubSeq(s, k, k + Len(sub) - 1) = sub

\* s.trim(), the white space being blanks
RECURSIVE trim(_)
trim(s) ==
    IF Len(s) = 0 THEN ""
    ELSE IF SubSeq(s, 1, 1) = " " THEN trim(SubSeq(s, 2, Len(s)))
    ELSE IF SubSeq(s, Len(s), Len(s)) = " " THEN trim(SubSeq(s, 1, Len(s) - 1))
    ELSE s

\* `${v}`
Str(v) ==
    CASE v.t = "string" -> v.s
      [] v.t = "number" -> ToString(v.n)
      [] v.t = "undefined" -> "undefined"
      [] v.t = "null" -> "null"
      [] v.t = "NaN" -> "NaN"
      [] v.t = "boolean" -> IF v.b THEN "true" ELSE "false"
      [] v.t = "decimal" -> v.d
      [] OTHER -> "[object Object]"

\* JSON.stringify(v), as the value its text parses to: a property whose
\* value is undefined is left out, undefined in an array and NaN become null
RECURSIVE stringify(_)
stringify(v) ==
    CASE v.t = "array" ->
             JArr([k \in 1..Len(v.a) |->
                      IF v.a[k].t = "undefined" THEN JNull ELSE stringify(v.a[k])])
      [] v.t = "object" ->
             JObj([k \in {x \in DOMAIN v.f : v.f[x].t # "undefined"} |->
                      stringify(v.f[k])])
      [] v.t = "NaN" -> JNull
      [] OTHER -> v

\* v.slice(0, n) in place of v.slice(-n)
SliceFirst(v, n) ==
    IF v.t = "array"
    THEN JArr(SubSeq(v.a, 1, IF Len(v.a) > n THEN n ELSE Len(v.a)))
    ELSE JStr(SubSeq(v.s, 1, IF Len(v.s) > n THEN n ELSE Len(v.s)))

\* v.slice(-n) of an array or a string
SliceLast(v, n) ==
    IF v.t = "array"
    THEN JArr(SubSeq(v.a, IF Len(v.a) > n THEN Len(v.a) - n + 1 ELSE 1, Len(v.a)))
    ELSE JStr(SubSeq(v.s, IF Len(v.s) > n THEN Len(v.s) - n + 1 ELSE 1, Len(v.s)))

\* [...v]: the elements of an array, the characters of a string
Spread(v) ==
    IF v.t = "array" THEN v.a
    ELSE [k \in 1..Len(v.s) |-> JStr(SubSeq(v.s, k, k))]

(***************************************************************************)
(* The provider registry.  A provider's key is the value of its            *)
(* environment variable when the process starts.                           *)
(***************************************************************************)
ProviderConfig ==
    << [name |-> "Groq-Ultra-Fast",
        url |-> "https://api.groq.com/openai/v1/chat/completions",
        model |-> JStr("mixtral-8x7b-32768"),
        type |-> "openai-compatible", priority |-> 1, maxTokens |-> JNum(2000)],
       [name |-> "DeepSeek-Intelligence",
        url |-> "https://api.deepseek.com/v1/chat/completions",
        model |-> JStr("deepseek-chat"),
        type |-> "openai-compatible", priority |-> 2, maxTokens |-> JNum(2000)],
       [name |-> "Together-AI-Llama",
        url |-> "https://api.together.xyz/v1/chat/completions",
        model |-> JStr("meta-llama/Meta-Llama-3.1-8B-Instruct-Turbo"),
        type |-> "openai-compatible", priority |-> 3, maxTokens |-> JNum(2000)],
       [name |-> "HuggingFace-Backup",
        url |-> "https://api-inference.huggingface.co/models/microsoft/DialoGPT-large",
        model |-> Undef,
        type |-> "huggingface", priority |-> 4, maxTokens |-> Undef] >>

ProviderIds == 1..Len(ProviderConfig)

\* API_PROVIDERS as built from an environment env: provider index -> key
LoadProviders(env) ==
    [i \in ProviderIds |->
        [name |-> ProviderConfig[i].name, url |-> ProviderConfig[i].url,
         key |-> env[i],
         model |-> ProviderConfig[i].model, type |-> ProviderConfig[i].type,
         priority |-> ProviderConfig[i].priority,
         maxTokens |-> ProviderConfig[i].maxTokens]]

\* 'your_' + provider.name.toLowerCase().split('-')[0] + '_api_key_here'
PlaceholderKey(name) ==
    "your_" \o splitFirst(toLowerCase(name), "-") \o "_api_key_here"

\* the test of validateAPIKeys on one provider
KeyMissing(p) ==
    ~Truthy(p.key) \/ p.key = JStr(PlaceholderKey(p.name))

\* validateAPIKeys(): the names it reports, and its result
missingKeys(providers) ==
    LET missing == SelectSeq(providers, KeyMissing)
    IN  [i \in 1..Len(missing) |-> missing[i].name]

validateAPIKeys(providers) == Len(missingKeys(providers)) = 0

\* the filter without its length test
EligibleAnyKey(p) == Truthy(p.key)

\* p => p.key && p.key.length > 10
Eligible(p) == Truthy(p.key) /\ LengthOver(p.key, MinKeyLength)

\* the comparison the other way round: b.priority - a.priority
RECURSIVE InsertByPriorityDescending(_, _)
InsertByPriorityDescending(sorted, p) ==
    IF Len(sorted) = 0 THEN <<p>>
    ELSE IF p.priority - sorted[Len(sorted)].priority > 0
         THEN Append(InsertByPriorityDescending(SubSeq(sorted, 1, Len(sorted) - 1), p),
                     sorted[Len(sorted)])
         ELSE Append(sorted, p)

\* Array.prototype.sort((a, b) => a.priority - b.priority): a stable sort
RECURSIVE InsertByPriority(_, _)
InsertByPriority(sorted, p) ==
    IF Len(sorted) = 0 THEN <<p>>
    ELSE IF sorted[Len(sorted)].priority - p.priority > 0
         THEN Append(InsertByPriority(SubSeq(sorted, 1, Len(sorted) - 1), p),
                     sorted[Len(sorted)])
         ELSE Append(sorted, p)

RECURSIVE SortByPriority(_)
SortByPriority(ps) ==
    IF Len(ps) = 0 THEN <<>>
    ELSE InsertByPriority(SortByPriority(SubSeq(ps, 1, Len(ps) - 1)), ps[Len(ps)])

\* API_PROVIDERS.filter(...).sort(...)
SortedProviders(providers) == SortByPriority(SelectSeq(providers, Eligible))

Names(ps) == [i \in 1..Len(ps) |-> ps[i].name]

(***************************************************************************)
(* The provider adapters.  An upstream answer f is what fetch() does:      *)
(*   [kind |-> "reject", message |-> m]      transport failure or timeout  *)
(*   [kind |-> "response", ok |-> b, status |-> n, json |-> j, data |-> v, *)
(*    text |-> s]      a response whose body is the text s; j says whether *)
(*    it parses as JSON, and then to the value v.                          *)
(*   [kind |-> "silent"]      the upstream never answers                   *)
(* An adapter call ends in Return(value) or Throw(message).                *)
(***************************************************************************)
Return(v) == [kind |-> "return", value |-> v]
Throw(m) == [kind |-> "throw", message |-> m]

Reject(m) == [kind |-> "reject", message |-> m]
Silent == [kind |-> "silent"]
JsonResponse(ok, status, v) ==
    [kind |-> "response", ok |-> ok, status |-> status, json |-> TRUE,
     data |-> v, text |-> "{...}"]
TextResponse(ok, status, s) ==
    [kind |-> "response", ok |-> ok, status |-> status, json |-> FALSE,
     data |-> Undef, text |-> s]

\* the flat message before the nested one
ErrorTextFlatFirst(errorData) ==
    LET e == Get(errorData, "error")
        nested == IF Nullish(e) THEN Undef ELSE Get(e, "message")
        flat == Get(errorData, "message")
    IN  IF Truthy(flat) THEN flat
        ELSE IF Truthy(nested) THEN nested
        ELSE JStr("Unknown error")

\* errorData.error?.message || errorData.message || 'Unknown error'
ErrorText(errorData) ==
    LET e == Get(errorData, "error")
        nested == IF Nullish(e) THEN Undef ELSE Get(e, "message")
        flat == Get(errorData, "message")
    IN  IF Truthy(nested) THEN nested
        ELSE IF Truthy(flat) THEN flat
        ELSE JStr("Unknown error")

\* the body of callOpenAICompatible after its fetch has answered f
callOpenAICompatible(provider, f) ==
    IF f.kind = "reject" THEN Throw(f.message)
    ELSE IF ~f.ok THEN
        \* response.json() has read the body: a body that is not JSON, or
        \* is null, sends control to the catch, whose response.text()
        \* rejects because the body is used
        IF f.json /\ ~Nullish(f.data)
        THEN Throw(provider.name \o " API error: " \o Str(ErrorText(f.data)))
        ELSE Throw("body used already")
    ELSE IF ~f.json THEN Throw("Unexpected token in JSON")
    ELSE IF Nullish(f.data) THEN Throw("Cannot read properties of null")
    ELSE LET choices == Get(f.data, "choices") IN
         IF \/ ~Truthy(choices)
            \/ ~Truthy(First(choices))
            \/ ~Truthy(Get(choices, "message"))
         THEN Throw("Invalid response format from " \o provider.name)
         ELSE Return(Get(Get(choices, "message"), "content"))

\* the body of callHuggingFace after its fetch has answered f
callHuggingFace(provider, f) ==
    IF f.kind = "reject" THEN Throw(f.message)
    ELSE IF ~f.ok THEN
        Throw("HuggingFace API error: " \o f.text)
    ELSE IF ~f.json THEN Throw("Unexpected token in JSON")
    ELSE IF Nullish(f.data) THEN Throw("Cannot read properties of null")
    ELSE LET data == f.data IN
         IF /\ data.t = "array"
            /\ Truthy(First(data))
            /\ Truthy(Get(data, "generated_text"))
         THEN Return(Get(data, "generated_text"))
         ELSE IF Truthy(Get(data, "generated_text"))
         THEN Return(Get(data, "generated_text"))
         ELSE IF Truthy(Get(data, "error"))
         THEN Throw("HuggingFace error: " \o Str(Get(data, "error")))
         ELSE Throw("Invalid HuggingFace response format")

\* callAIProvider before its fetch: history.slice(-6) needs an array
\* (history is req.body.history || [])
SliceThrows(history) == history.t \notin {"array", "string"}

SupportedType(provider) == provider.type \in {"openai-compatible", "huggingface"}

\* does callAIProvider throw before any request is sent
ThrowsBeforeFetch(provider, history) ==
    SliceThrows(history) \/ ~SupportedType(provider)

BeforeFetchError(provider, history) ==
    IF SliceThrows(history) THEN "history.slice is not a function"
    ELSE "Unsupported provider type: " \o provider.type

\* the first line of the system prompt
systemPrompt ==
    "You are JARVIS (Just A Rather Very Intelligent System), an advanced AI assistant with unlimited knowledge and capabilities."

\* [system, ...history.slice(-6), { role: 'user', content: message }]
messages(message, history) ==
    JArr(<< JObj([role |-> JStr("system"), content |-> JStr(systemPrompt)]) >>
         \o Spread(SliceLast(history, HistoryWindow))
         \o << JObj([role |-> JStr("user"), content |-> message]) >>)

\* the fetch of callOpenAICompatible: whom it goes to, its timeout option
\* and its body as the receiver parses it
OpenAIRequest(provider, msgs) ==
    [provider |-> provider.name,
     url |-> provider.url,
     timeout |-> FetchTimeout,
     body |-> stringify(JObj([model |-> provider.model,
                              messages |-> msgs,
                              max_tokens |-> IF Truthy(provider.maxTokens)
                                             THEN provider.maxTokens ELSE JNum(2000),
                              temperature |-> JDec("0.7"),
                              stream |-> JBool(FALSE)]))]

\* the fetch of callHuggingFace
HuggingFaceRequest(provider, message) ==
    [provider |-> provider.name,
     url |-> provider.url,
     timeout |-> FetchTimeout,
     body |-> stringify(JObj([inputs |-> message,
                              parameters |-> JObj([max_length |-> JNum(500),
                                                   temperature |-> JDec("0.7"),
                                                   do_sample |-> JBool(TRUE),
                                                   return_full_text |-> JBool(FALSE),
                                                   repetition_penalty |-> JDec("1.1")])]))]

\* the fetch callAIProvider sends for a message and a history
Request(provider, message, history) ==
    IF provider.type = "openai-compatible"
    THEN OpenAIRequest(provider, messages(message, history))
    ELSE HuggingFaceRequest(provider, message)

\* callAIProvider once its fetch has answered f
callAIProvider(provider, f) ==
    IF provider.type = "openai-compatible" THEN callOpenAICompatible(provider, f)
    ELSE callHuggingFace(provider, f)

\* the test with >= in place of >
AcceptedFromTen(result) ==
    /\ result.kind = "return"
    /\ Truthy(result.value)
    /\ LengthOver(result.value, MinResponseLength - 1)

\* if (response && response.length > 10)
Accepted(result) ==
    /\ result.kind = "return"
    /\ Truthy(result.value)
    /\ LengthOver(result.value, MinResponseLength)

(***************************************************************************)
(* The state.                                                              *)
(***************************************************************************)
VARIABLES
    API_PROVIDERS,    \* the provider list, keys included
    startup,          \* what startServer() logged: keys validation, APIs configured
    requestCounts,    \* the Map client address -> count; its domain is its keys
    pc,               \* per request: "idle", "await" (at an upstream fetch), "done"
    req,              \* per request: [ip, body]
    world,            \* per request: provider name -> what its fetch answers
    sortedProviders,  \* per request: the handler's sortedProviders
    idx,              \* per request: position in sortedProviders of the loop
    resp,             \* per request: the response sent, [status, body]
    contacted,        \* per request: names of the providers a fetch was sent to
    fetched,          \* per request: the fetches sent, in order
    log,              \* per request: the failure lines of console.log
    issued,           \* per client: requests it has sent since the last clear
    ordinal,          \* per request: its number among its client's requests
                      \* since the last clear before it arrived
    rejected,         \* the clients whose latest request was answered 429
    admitted,         \* per client: its requests that passed the admission
                      \* check since the last clear
    health,           \* the latest response of GET /health
    sends,            \* per request: the responses the handler has sent
    \* the page, script.js
    isProcessing,         \* this.isProcessing
    conversationHistory,  \* this.conversationHistory
    messageInput,         \* this.elements.messageInput.value
    messagesArea,         \* the messages added to the chat, as the
                          \* arguments of addMessageToChat: [sender, content]
    typingIndicator,      \* the typing indicator is shown
    statusText,           \* the status line
    at,                   \* where processUserMessage is: "ready", or waiting
                          \* at "fetch" or at "json"
    answer,               \* the response fetch resolved with, while read
    timers,               \* pending timers of recognition.onresult
    calls,                \* the chat requests sent so far
    outbox                \* the body of the latest chat request sent

\* the state of the backend process
server == <<API_PROVIDERS, startup, requestCounts, pc, req, world,
            sortedProviders, idx, resp, contacted, fetched, log, issued,
            ordinal, rejected, admitted, health, sends>>

\* the state of the page
page == <<isProcessing, conversationHistory, messageInput, messagesArea,
          typingIndicator, statusText, at, answer, timers, calls, outbox>>

vars == <<server, page>>

Reqs == 1..NumReqs

\* if (!global.fetch) global.fetch = require('node-fetch'): the fetch of the
\* runtime where there is one, the polyfill elsewhere
FetchImpls == {"native", "node-fetch"}

\* the timeout option is one of node-fetch; the fetch of the runtime has no
\* such option and ignores it
TimeoutHonoured(globalFetch) == globalFetch = "node-fetch"

\* the client addresses
Clients == {"10.0.0.1", "10.0.0.2"}

NoResp == [status |-> 0, body |-> Undef]
NoReq == [ip |-> "", body |-> Undef]
EmptyMap == [c \in {} |-> 0]

\* requestCounts.get(clientIP) || 0
CountOf(ip) == IF ip \in DOMAIN requestCounts THEN requestCounts[ip] ELSE 0

\* a set that drops every other entry
MapSetAlone(m, k, n) == [c \in {k} |-> n]

\* requestCounts.set(clientIP, n)
MapSet(m, k, n) == [c \in DOMAIN m \cup {k} |-> IF c = k THEN n ELSE m[c]]

\* a - b on JavaScript values
JsMinus(a, b) == IF a.t = "number" /\ b.t = "number" THEN JNum(a.n - b.n) ELSE NaN

(***************************************************************************)
(* The responses of the chat handler.                                      *)
(***************************************************************************)
RateLimited ==
    [status |-> 429,
     body |-> [error |-> "Rate limit exceeded",
               message |-> "Please wait before making more requests"]]
MessageRequired ==
    [status |-> 400,
     body |-> [error |-> "Message is required",
               message |-> "Please provide a valid message string"]]
MessageTooLong ==
    [status |-> 400,
     body |-> [error |-> "Message too long",
               message |-> "Please keep messages under 10,000 characters"]]
NoProviders ==
    [status |-> 503,
     body |-> [error |-> "No API providers configured",
               message |-> "Server configuration error - please contact administrator"]]
\* the list of every configured provider in place of the ones tried
AllFailedEveryProvider(sorted) ==
    [status |-> 503,
     body |-> [error |-> "All AI providers are currently unavailable",
               message |-> "Please try again in a moment. If the issue persists, contact support.",
               providers_tried |-> Names(API_PROVIDERS)]]

AllFailed(sorted) ==
    [status |-> 503,
     body |-> [error |-> "All AI providers are currently unavailable",
               message |-> "Please try again in a moment. If the issue persists, contact support.",
               providers_tried |-> Names(sorted)]]
\* the catch of the handler
ServerError ==
    [status |-> 500,
     body |-> [error |-> "Internal server error",
               message |-> "An unexpected error occurred. Please try again."]]
\* req.startTime is set by a middleware registered after the route, which
\* the route never passes control to: it is undefined in the handler
Success(provider, text, now) ==
    [status |-> 200,
     body |-> [response |-> text,
               provider |-> provider.name,
               model |-> IF Truthy(provider.model) THEN provider.model ELSE JStr("Unknown"),
               timestamp |-> now,
               processing_time_ms |-> JsMinus(now, Undef)]]

FailLine(provider, message) == provider.name \o " failed: " \o message

(***************************************************************************)
(* The chat handler.                                                       *)
(***************************************************************************)
\* req.body.history || []
HistoryOf(body) ==
    IF Truthy(Get(body, "history")) THEN Get(body, "history") ELSE JArr(<<>>)

\* the first provider at or after position i whose call gets as far as its
\* fetch; Len(sorted) + 1 when there is none
RECURSIVE NextFetch(_, _, _)
NextFetch(sorted, i, history) ==
    IF i > Len(sorted) THEN i
    ELSE IF ThrowsBeforeFetch(sorted[i], history)
         THEN NextFetch(sorted, i + 1, history)
         ELSE i

\* for (const provider of sortedProviders), from position i up to the next
\* fetch or the end of the list, for a request with the given body; sent,
\* outs and lines are the calls, the fetches and the log of the request so far
Loop(r, sorted, i, body, sent, outs, lines) ==
    LET history == HistoryOf(body)
        j == NextFetch(sorted, i, history)
        skipped == [k \in 1..(j - i) |->
                       FailLine(sorted[i + k - 1],
                                BeforeFetchError(sorted[i + k - 1], history))]
    IN  /\ idx' = [idx EXCEPT ![r] = j]
        /\ log' = [log EXCEPT ![r] = lines \o skipped]
        /\ IF j > Len(sorted)
           THEN /\ pc' = [pc EXCEPT ![r] = "done"]
                /\ resp' = [resp EXCEPT ![r] = AllFailed(sorted)]
                /\ sends' = [sends EXCEPT ![r] = @ + 1]
                /\ contacted' = [contacted EXCEPT ![r] = sent]
                /\ fetched' = [fetched EXCEPT ![r] = outs]
           ELSE /\ pc' = [pc EXCEPT ![r] = "await"]
                /\ resp' = [resp EXCEPT ![r] = NoResp]
                /\ UNCHANGED sends
                /\ contacted' = [contacted EXCEPT ![r] = Append(sent, sorted[j].name)]
                /\ fetched' = [fetched EXCEPT ![r] =
                       Append(outs, Request(sorted[j], Get(body, "message"), history))]

\* the handler answers at once with the response a
Answer(r, a) ==
    /\ pc' = [pc EXCEPT ![r] = "done"]
    /\ resp' = [resp EXCEPT ![r] = a]
    /\ sends' = [sends EXCEPT ![r] = @ + 1]
    /\ idx' = [idx EXCEPT ![r] = 0]
    /\ contacted' = [contacted EXCEPT ![r] = <<>>]
    /\ fetched' = [fetched EXCEPT ![r] = <<>>]
    /\ log' = [log EXCEPT ![r] = <<>>]

\* the rejection that also counts the request
RejectRequestCounted(r, ip, count) ==
    /\ Answer(r, RateLimited)
    /\ requestCounts' = MapSet(requestCounts, ip, count + 1)

\* the rejection that looks at the message first
RejectRequestValidated(r, ip, count) ==
    /\ Answer(r, IF Truthy(Get(req'[r].body, "message"))
                 THEN RateLimited ELSE MessageRequired)
    /\ UNCHANGED requestCounts

\* if (count > 60) return res.status(429).json(...): nothing else is done
RejectRequest(r, ip, count) ==
    /\ Answer(r, RateLimited)
    /\ UNCHANGED requestCounts

\* the test with >= in place of >
TooLongFromLimit(message) == LengthOver(message, MaxMessageLength - 1)

\* if (message.length > 10000)
TooLong(message) == LengthOver(message, MaxMessageLength)

\* the request gets as far as the lookup of the providers
ReachesLookup(ip, body) ==
    /\ ~(CountOf(ip) > RateLimit)
    /\ ~Nullish(body)
    /\ Truthy(Get(body, "message"))
    /\ Get(body, "message").t = "string"
    /\ ~TooLong(Get(body, "message"))

\* the lookup that sorts and filters the list itself
LookupInPlace(providers) == SortedProviders(providers)

\* what API_PROVIDERS.filter(...).sort(...) leaves in API_PROVIDERS: filter()
\* makes a new array, and sort() sorts the array it is called on, the new one
AfterLookup(providers) == providers

\* app.post('/api/chat'): a request from ip with the JSON body arrives; if it
\* gets as far as the provider loop, the providers would answer it as some
\* w of W says; the handler runs to its first fetch or to its response
Receive(r, ip, body, W) ==
    /\ pc[r] = "idle"
    /\ req' = [req EXCEPT ![r] = [ip |-> ip, body |-> body]]
    /\ issued' = [issued EXCEPT ![ip] = @ + 1]
    /\ ordinal' = [ordinal EXCEPT ![r] = issued[ip] + 1]
    /\ rejected' = IF CountOf(ip) > RateLimit THEN rejected \cup {ip}
                                               ELSE rejected \ {ip}
    /\ admitted' = IF CountOf(ip) > RateLimit THEN admitted
                                               ELSE [admitted EXCEPT ![ip] = @ + 1]
    /\ API_PROVIDERS' = IF ReachesLookup(ip, body)
                        THEN AfterLookup(API_PROVIDERS) ELSE API_PROVIDERS
    /\ UNCHANGED <<startup, health, page>>
    /\ LET count == CountOf(ip)
           message == Get(body, "message")
           sorted == SortedProviders(API_PROVIDERS)
       IN  IF count > RateLimit
           THEN /\ RejectRequest(r, ip, count)
                /\ world' = [world EXCEPT ![r] = <<>>]
                /\ sortedProviders' = [sortedProviders EXCEPT ![r] = <<>>]
           ELSE /\ requestCounts' = MapSet(requestCounts, ip, count + 1)
                /\ IF Nullish(body)
                   \* const { message, history } = req.body throws
                   THEN /\ Answer(r, ServerError)
                        /\ world' = [world EXCEPT ![r] = <<>>]
                        /\ sortedProviders' = [sortedProviders EXCEPT ![r] = <<>>]
                   ELSE IF ~Truthy(message) \/ message.t # "string"
                   THEN /\ Answer(r, MessageRequired)
                        /\ world' = [world EXCEPT ![r] = <<>>]
                        /\ sortedProviders' = [sortedProviders EXCEPT ![r] = <<>>]
                   ELSE IF TooLong(message)
                   THEN /\ Answer(r, MessageTooLong)
                        /\ world' = [world EXCEPT ![r] = <<>>]
                        /\ sortedProviders' = [sortedProviders EXCEPT ![r] = <<>>]
                   ELSE IF Len(sorted) = 0
                   THEN /\ Answer(r, NoProviders)
                        /\ world' = [world EXCEPT ![r] = <<>>]
                        /\ sortedProviders' = [sortedProviders EXCEPT ![r] = sorted]
                   ELSE /\ \E w \in W : world' = [world EXCEPT ![r] = w]
                        /\ sortedProviders' = [sortedProviders EXCEPT ![r] = sorted]
                        /\ Loop(r, sorted, 1, body, <<>>, <<>>, <<>>)

\* the loop without its try/catch: what a provider throws reaches the catch
\* of the handler
FailoverRethrow(r, sorted, provider, result) ==
    IF result.kind = "throw"
    THEN /\ pc' = [pc EXCEPT ![r] = "done"]
         /\ resp' = [resp EXCEPT ![r] = ServerError]
         /\ sends' = [sends EXCEPT ![r] = @ + 1]
         /\ UNCHANGED <<idx, contacted, fetched, log>>
    ELSE Loop(r, sorted, idx[r] + 1, req[r].body, contacted[r], fetched[r], log[r])

\* the loop that calls the same provider again
FailoverRetry(r, sorted, provider, result) ==
    Loop(r, sorted, idx[r], req[r].body, contacted[r], fetched[r], log[r])

\* the call of provider did not end in an accepted response: the catch logs
\* what was thrown, and the loop goes on
Failover(r, sorted, provider, result) ==
    Loop(r, sorted, idx[r] + 1, req[r].body, contacted[r], fetched[r],
         IF result.kind = "throw"
         THEN Append(log[r], FailLine(provider, result.message))
         ELSE log[r])

\* the response without the return: the loop goes on to the next provider
SucceedAndGoOn(r, sorted, provider, text, now) ==
    LET history == HistoryOf(req[r].body)
        j == NextFetch(sorted, idx[r] + 1, history)
    IN  /\ idx' = [idx EXCEPT ![r] = j]
        /\ UNCHANGED log
        /\ IF j > Len(sorted)
           THEN /\ pc' = [pc EXCEPT ![r] = "done"]
                /\ resp' = [resp EXCEPT ![r] = AllFailed(sorted)]
                /\ sends' = [sends EXCEPT ![r] = @ + 2]
                /\ UNCHANGED <<contacted, fetched>>
           ELSE /\ pc' = [pc EXCEPT ![r] = "await"]
                /\ resp' = [resp EXCEPT ![r] = Success(provider, text, now)]
                /\ sends' = [sends EXCEPT ![r] = @ + 1]
                /\ contacted' = [contacted EXCEPT ![r] = Append(@, sorted[j].name)]
                /\ fetched' = [fetched EXCEPT ![r] =
                       Append(@, Request(sorted[j], Get(req[r].body, "message"),
                                         history))]

\* return res.json({response, provider, ...}): the response is sent and the
\* handler returns from inside the loop
Succeed(r, sorted, provider, text, now) ==
    /\ pc' = [pc EXCEPT ![r] = "done"]
    /\ resp' = [resp EXCEPT ![r] = Success(provider, text, now)]
    /\ sends' = [sends EXCEPT ![r] = @ + 1]
    /\ UNCHANGED <<idx, contacted, fetched, log>>

\* the fetch of request r answers: the rest of callAIProvider, the test of
\* the response, and the loop up to the next fetch or the end
ProviderReturn(r, now) ==
    /\ pc[r] = "await"
    /\ world[r][sortedProviders[r][idx[r]].name].kind # "silent"
    /\ LET sorted == sortedProviders[r]
           provider == sorted[idx[r]]
           result == callAIProvider(provider, world[r][provider.name])
       IN  IF Accepted(result)
           THEN Succeed(r, sorted, provider, result.value, now)
           ELSE Failover(r, sorted, provider, result)
    /\ UNCHANGED <<API_PROVIDERS, startup, requestCounts, req, world,
                   sortedProviders, issued, ordinal, rejected, admitted,
                   health, page>>

\* the timeout of the fetch of request r has passed and the upstream has not
\* answered; the fetch is the one globalFetch: node-fetch rejects it, which
\* the loop handles as any failure; the fetch of the runtime goes on waiting.
\* Which fetch a process has is settled when it starts; the choice is made
\* here at each timeout, which gives the behaviours of both and more
Expire(r, globalFetch) ==
    /\ pc[r] = "await"
    /\ world[r][sortedProviders[r][idx[r]].name].kind = "silent"
    /\ LET sorted == sortedProviders[r]
           provider == sorted[idx[r]]
       IN  IF TimeoutHonoured(globalFetch)
           THEN Failover(r, sorted, provider,
                         Throw("network timeout at: " \o provider.url))
           ELSE /\ pc' = [pc EXCEPT ![r] = "overdue"]
                /\ UNCHANGED <<idx, resp, sends, contacted, fetched, log>>
    /\ UNCHANGED <<API_PROVIDERS, startup, requestCounts, req, world,
                   sortedProviders, issued, ordinal, rejected, admitted,
                   health, page>>

\* a fetch that waited past its timeout is ended by something else than the
\* timeout option, the connection being closed for one
LateFailure(r) ==
    /\ pc[r] = "overdue"
    /\ Failover(r, sortedProviders[r], sortedProviders[r][idx[r]],
                Throw("fetch failed"))
    /\ UNCHANGED <<API_PROVIDERS, startup, requestCounts, req, world,
                   sortedProviders, issued, ordinal, rejected, admitted,
                   health, page>>

\* the response has been sent and the handler has returned: the request and
\* its locals are gone
Finish(r) ==
    /\ pc[r] = "done"
    /\ pc' = [pc EXCEPT ![r] = "idle"]
    /\ req' = [req EXCEPT ![r] = NoReq]
    /\ world' = [world EXCEPT ![r] = <<>>]
    /\ sortedProviders' = [sortedProviders EXCEPT ![r] = <<>>]
    /\ idx' = [idx EXCEPT ![r] = 0]
    /\ resp' = [resp EXCEPT ![r] = NoResp]
    /\ contacted' = [contacted EXCEPT ![r] = <<>>]
    /\ fetched' = [fetched EXCEPT ![r] = <<>>]
    /\ log' = [log EXCEPT ![r] = <<>>]
    /\ ordinal' = [ordinal EXCEPT ![r] = 0]
    /\ sends' = [sends EXCEPT ![r] = 0]
    /\ UNCHANGED <<API_PROVIDERS, startup, requestCounts, issued, rejected,
                   admitted, health, page>>

\* a clear that drops one client's entry only
ClearOneClient ==
    /\ \E c \in DOMAIN requestCounts :
           requestCounts' = [d \in DOMAIN requestCounts \ {c} |-> requestCounts[d]]
    /\ issued' = [c \in DOMAIN issued |-> 0]
    /\ admitted' = [c \in DOMAIN admitted |-> 0]
    /\ UNCHANGED <<API_PROVIDERS, startup, pc, req, world, sortedProviders,
                   idx, resp, contacted, fetched, log, ordinal, rejected,
                   health, sends, page>>

\* setInterval(() => requestCounts.clear(), 60000)
ClearCounts ==
    /\ requestCounts' = EmptyMap
    /\ issued' = [c \in DOMAIN issued |-> 0]
    /\ admitted' = [c \in DOMAIN admitted |-> 0]
    /\ UNCHANGED <<API_PROVIDERS, startup, pc, req, world, sortedProviders,
                   idx, resp, contacted, fetched, log, ordinal, rejected,
                   health, sends, page>>

\* the body of the /health response; NODE_ENV is not set
HealthResponse(providers, now) ==
    [status |-> 200,
     body |-> [status |-> "JARVIS Backend Online",
               timestamp |-> now,
               version |-> "2.0.0",
               environment |-> "development",
               apis_configured |-> Len(SelectSeq(providers, Eligible)),
               apis_total |-> Len(providers),
               keys_valid |-> validateAPIKeys(providers)]]

\* app.get('/health'): validateAPIKeys() and filter() read the list
Health(now) ==
    /\ health' = HealthResponse(API_PROVIDERS, now)
    /\ UNCHANGED <<API_PROVIDERS, startup, requestCounts, pc, req, world,
                   sortedProviders, idx, resp, contacted, fetched, log, issued,
                   ordinal, rejected, admitted, sends, page>>

\* the process starts with the environment env: startServer()
Start(env) ==
    /\ API_PROVIDERS = LoadProviders(env)
    /\ startup = [keysValid |-> validateAPIKeys(LoadProviders(env)),
                  missing |-> missingKeys(LoadProviders(env)),
                  configured |-> Len(SelectSeq(LoadProviders(env), Eligible))]
    /\ requestCounts = EmptyMap
    /\ pc = [r \in Reqs |-> "idle"]
    /\ req = [r \in Reqs |-> NoReq]
    /\ world = [r \in Reqs |-> <<>>]
    /\ sortedProviders = [r \in Reqs |-> <<>>]
    /\ idx = [r \in Reqs |-> 0]
    /\ resp = [r \in Reqs |-> NoResp]
    /\ contacted = [r \in Reqs |-> <<>>]
    /\ fetched = [r \in Reqs |-> <<>>]
    /\ log = [r \in Reqs |-> <<>>]
    /\ issued = [c \in Clients |-> 0]
    /\ ordinal = [r \in Reqs |-> 0]
    /\ rejected = {}
    /\ admitted = [c \in Clients |-> 0]
    /\ health = NoResp
    /\ sends = [r \in Reqs |-> 0]

(***************************************************************************)
(* The page: what new JarvisAISystem() and its initialize() leave.         *)
(***************************************************************************)
\* the welcome message of displayWelcomeMessage(), by its title
welcome == "**JARVIS AI System Online**"

NoAnswer == [kind |-> "none"]

JarvisAISystem ==
    /\ isProcessing = FALSE
    /\ conversationHistory = <<>>
    /\ messageInput = ""
    /\ messagesArea = << [sender |-> "ai", content |-> JStr(welcome)] >>
    /\ typingIndicator = FALSE
    /\ statusText = "JARVIS Online"
    /\ at = "ready"
    /\ answer = NoAnswer
    /\ timers = 0
    /\ calls = 0
    /\ outbox = Undef

(***************************************************************************)
(* The inputs: environments, clients, request bodies, upstream answers.    *)
(***************************************************************************)
RECURSIVE Repeat(_, _)
Repeat(s, n) == IF n = 0 THEN "" ELSE s \o Repeat(s, n - 1)

\* a string of MaxMessageLength characters
LongestMessage == Repeat(Repeat(Repeat(Repeat("x", 10), 10), 10), MaxMessageLength \div 1000)

Long == "Hello there, how can I help?"
Eleven == "Hello world"
TenChars == "0123456789"
Five == "Hello"

\* the values of one provider's environment variable: unset, empty, of 10
\* characters, of 11 characters, and the placeholder of .env.example; the
\* third provider's is unset or of 11 characters
KeyChoices(i) ==
    IF i = 3 THEN {Undef, JStr("k" \o TenChars)}
    ELSE {Undef, JStr(""), JStr(TenChars), JStr("k" \o TenChars),
          JStr(PlaceholderKey(ProviderConfig[i].name))}

Envs == {env \in [ProviderIds -> UNION {KeyChoices(i) : i \in ProviderIds}] :
            \A i \in ProviderIds : env[i] \in KeyChoices(i)}

Body(message, history) == JObj([message |-> message, history |-> history])

Messages ==
    {Undef, JNum(42), JStr(""), JStr("   "), JStr("What is TLA+?"),
     JStr(LongestMessage), JStr(LongestMessage \o "x")}

\* the body of an ordinary request
PlainBody == Body(JStr("What is TLA+?"), Undef)

\* a request whose history is no array
BadHistoryBody == Body(JStr("What is TLA+?"), JNum(5))

\* the k-th turn of a conversation
Turn(k) ==
    JObj([role |-> JStr(IF k % 2 = 1 THEN "user" ELSE "assistant"),
          content |-> JStr("turn " \o ToString(k))])

Turns(n) == JArr([k \in 1..n |-> Turn(k)])

\* requests with a history of fewer than, one more than and three more than
\* HistoryWindow turns
HistoryBody(n) == Body(JStr("What is TLA+?"), Turns(n))

HistoryBodies == {HistoryBody(n) : n \in {2, HistoryWindow + 1, HistoryWindow + 3}}

\* req.body of a request that had no body to parse
NoBody == Undef

\* every message without a history, one whose history is no array, the
\* ones with a history, and no body
Bodies ==
    {Body(m, Undef) : m \in Messages} \cup {BadHistoryBody} \cup HistoryBodies
        \cup {NoBody}

\* {"choices": [{"message": {"content": c}}]}
ChoicesList(c) ==
    JObj([choices |-> JArr(<< JObj([message |-> JObj([content |-> c])]) >>)])

\* {"choices": {"0": {}, "message": {"content": c}}}
ChoicesKeyed(c) ==
    JObj([choices |-> JObj(("0" :> JObj(<<>>)) @@
                           ("message" :> JObj([content |-> c])))])

ErrorBody(m) == JObj([error |-> JObj([message |-> JStr(m)])])

OpenAIAnswers ==
    {JsonResponse(FALSE, 503, ErrorBody("boom")),
     JsonResponse(TRUE, 200, ChoicesList(JStr(Long))),
     JsonResponse(TRUE, 200, ChoicesKeyed(JStr(Eleven))),
     JsonResponse(TRUE, 200, ChoicesKeyed(JStr(TenChars))),
     JsonResponse(TRUE, 200, ChoicesKeyed(JStr("")))}

HuggingFaceAnswers ==
    {Reject("network timeout"),
     JsonResponse(TRUE, 200, JArr(<< JObj([generated_text |-> JStr(Long)]) >>)),
     JsonResponse(TRUE, 200, JObj([generated_text |-> JStr(Eleven)])),
     JsonResponse(TRUE, 200, JObj([generated_text |-> JStr(Five)]))}

\* every assignment of an answer to each provider of the list ps, the
\* chat-completion providers answering from oa and the others from ha
Worlds(ps, oa, ha) ==
    LET on == {ps[i].name : i \in {k \in 1..Len(ps) : ps[k].type = "openai-compatible"}}
        hn == {ps[i].name : i \in {k \in 1..Len(ps) : ps[k].type # "openai-compatible"}}
    IN  {[n \in on \cup hn |-> IF n \in on THEN a[n] ELSE b[n]] :
            a \in [on -> oa], b \in [hn -> ha]}

(***************************************************************************)
(* Spec: one request at a time, every environment, every body; the         *)
(* ordinary request meets every assignment of answers to the eligible      *)
(* providers, the request with two turns of history every assignment of    *)
(* non-success answers, the other bodies providers that all fail.          *)
(***************************************************************************)
Init == \E env \in Envs : Start(env) /\ JarvisAISystem

FailingWorlds(ps) ==
    Worlds(ps, {JsonResponse(FALSE, 503, ErrorBody("boom"))}, {Reject("network timeout")})

\* non-success answers of the chat-completion providers: a nested error
\* message, an empty one, and a nested one beside a flat one
ErrorAnswers ==
    {JsonResponse(FALSE, 500, ErrorBody("boom")),
     JsonResponse(FALSE, 500, ErrorBody("")),
     JsonResponse(FALSE, 429,
                  JObj([error |-> JObj([message |-> JStr("quota exceeded")]),
                        message |-> JStr("Too Many Requests")]))}

\* answers of the generic-text provider that carry no text: a failed
\* transport, an error field, and a body of neither shape
HuggingFaceErrorAnswers ==
    {Reject("network timeout"),
     JsonResponse(TRUE, 200, JObj([error |-> JStr("Model is currently loading")])),
     JsonResponse(TRUE, 200, JObj([estimated_time |-> JNum(20)]))}

ErrorWorlds(ps) == Worlds(ps, ErrorAnswers, HuggingFaceErrorAnswers)

\* what the providers may answer to a request with the given body
WorldsFor(body) ==
    IF body = PlainBody
    THEN Worlds(SortedProviders(API_PROVIDERS), OpenAIAnswers, HuggingFaceAnswers)
    ELSE IF body = HistoryBody(2)
    THEN ErrorWorlds(SortedProviders(API_PROVIDERS))
    ELSE FailingWorlds(SortedProviders(API_PROVIDERS))

Arrive ==
    \E ip \in {"10.0.0.1"}, body \in Bodies :
        /\ CountOf(ip) < MaxArrivals
        /\ Receive(1, ip, body, WorldsFor(body))

Respond == \E r \in Reqs, now \in {JNum(1000)} : ProviderReturn(r, now)

Done == \E r \in Reqs : Finish(r)

Tick == ClearCounts

Next == Arrive \/ Respond \/ Done \/ Tick

Spec == Init /\ [][Next]_vars

(***************************************************************************)
(* SpecRate: the rate limiter.  Two clients send one request after the     *)
(* other, up to MaxIssued each between two clears; only the last provider  *)
(* has a key.                                                              *)
(***************************************************************************)
\* requests a client sends between two clears, in SpecRate
MaxIssued == 62

RateEnv == [i \in ProviderIds |-> IF i = Len(ProviderConfig) THEN JStr("k" \o TenChars) ELSE Undef]

RateBodies == {PlainBody, Body(Undef, Undef), NoBody}

RateAnswers ==
    {Reject("network timeout"),
     JsonResponse(TRUE, 200, JObj([generated_text |-> JStr(Eleven)]))}

InitRate == Start(RateEnv) /\ JarvisAISystem

ArriveRate ==
    \E ip \in Clients, body \in RateBodies :
        /\ issued[ip] < MaxIssued
        /\ Receive(1, ip, body, Worlds(SortedProviders(API_PROVIDERS), {}, RateAnswers))

NextRate == ArriveRate \/ Respond \/ Done \/ Tick

SpecRate == InitRate /\ [][NextRate]_vars

(***************************************************************************)
(* SpecConc: requests handled at the same time.  The first and the last    *)
(* provider have keys; the upstream failures come with different texts.    *)
(***************************************************************************)
ConcEnv ==
    [i \in ProviderIds |->
        IF i \in {1, Len(ProviderConfig)} THEN JStr("k" \o TenChars) ELSE Undef]

ConcBodies == {PlainBody, BadHistoryBody}

ConcOpenAIAnswers ==
    {JsonResponse(FALSE, 500, ErrorBody("boom")),
     JsonResponse(FALSE, 401, ErrorBody("Invalid API Key")),
     JsonResponse(TRUE, 200, ChoicesKeyed(JStr(Eleven)))}

ConcHuggingFaceAnswers ==
    {Reject("network timeout"),
     Reject("connect ECONNREFUSED")}

InitConc == Start(ConcEnv) /\ JarvisAISystem

ArriveConc ==
    \E r \in Reqs, ip \in {"10.0.0.1"}, body \in ConcBodies :
        /\ issued[ip] < MaxArrivals
        /\ Receive(r, ip, body,
                   IF body = PlainBody
                   THEN Worlds(SortedProviders(API_PROVIDERS), ConcOpenAIAnswers,
                               ConcHuggingFaceAnswers)
                   ELSE FailingWorlds(SortedProviders(API_PROVIDERS)))

NextConc == ArriveConc \/ Respond \/ Done \/ Tick

SpecConc == InitConc /\ [][NextConc]_vars

(***************************************************************************)
(* SpecAdmit: the admission check under concurrency.  Two clients send up  *)
(* to MaxAdmit requests each between two clears, with and without a        *)
(* message; the requests are handled at the same time, and the one         *)
(* provider with a key fails.                                              *)
(***************************************************************************)
\* requests a client sends between two clears, in SpecAdmit
MaxAdmit == 2

AdmitBodies == {PlainBody, Body(Undef, Undef)}

InitAdmit == Start(RateEnv) /\ JarvisAISystem

ArriveAdmit ==
    \E r \in Reqs, ip \in Clients, body \in AdmitBodies :
        /\ issued[ip] < MaxAdmit
        /\ Receive(r, ip, body, FailingWorlds(SortedProviders(API_PROVIDERS)))

NextAdmit == ArriveAdmit \/ Respond \/ Done \/ Tick

SpecAdmit == InitAdmit /\ [][NextAdmit]_vars

(***************************************************************************)
(* SpecHang: upstreams that never answer.  The first and the last provider *)
(* have keys; requests of one client are handled at the same time.         *)
(***************************************************************************)
HangOpenAIAnswers ==
    {Silent,
     JsonResponse(FALSE, 500, ErrorBody("boom")),
     JsonResponse(TRUE, 200, ChoicesKeyed(JStr(Eleven)))}

HangHuggingFaceAnswers == {Silent, Reject("connect ECONNREFUSED")}

InitHang == Start(ConcEnv) /\ JarvisAISystem

ArriveHang ==
    \E r \in Reqs, ip \in {"10.0.0.1"} :
        /\ issued[ip] < MaxArrivals
        /\ Receive(r, ip, PlainBody,
                   Worlds(SortedProviders(API_PROVIDERS), HangOpenAIAnswers,
                          HangHuggingFaceAnswers))

Timeout == \E r \in Reqs, globalFetch \in FetchImpls : Expire(r, globalFetch)

Late == \E r \in Reqs : LateFailure(r)

NextHang == ArriveHang \/ Respond \/ Timeout \/ Late \/ Done \/ Tick

SpecHang == InitHang /\ [][NextHang]_vars

(***************************************************************************)
(* SpecHealth: chat requests and health requests in any order.  One client *)
(* sends up to MaxAdmit chat requests between two clears; the providers    *)
(* have keys, placeholders or none.                                        *)
(***************************************************************************)
HealthEnvs ==
    {env \in Envs :
        /\ env[1] \in {Undef, JStr("k" \o TenChars),
                        JStr(PlaceholderKey(ProviderConfig[1].name))}
        /\ env[2] = Undef
        /\ env[Len(ProviderConfig)] \in {Undef, JStr("k" \o TenChars)}}

HealthBodies == {PlainBody, Body(JStr(""), Undef), NoBody}

HealthOpenAIAnswers ==
    {JsonResponse(FALSE, 503, ErrorBody("boom")),
     JsonResponse(TRUE, 200, ChoicesKeyed(JStr(Eleven)))}

HealthHuggingFaceAnswers ==
    {Reject("network timeout"),
     JsonResponse(TRUE, 200, JObj([generated_text |-> JStr(Eleven)]))}

InitHealth == \E env \in HealthEnvs : Start(env) /\ JarvisAISystem

ArriveHealth ==
    \E ip \in {"10.0.0.1"}, body \in HealthBodies :
        /\ issued[ip] < MaxAdmit
        /\ Receive(1, ip, body,
                   Worlds(SortedProviders(API_PROVIDERS), HealthOpenAIAnswers,
                          HealthHuggingFaceAnswers))

CheckHealth == \E now \in {JNum(1000)} : Health(now)

NextHealth == ArriveHealth \/ CheckHealth \/ Respond \/ Done \/ Tick

SpecHealth == InitHealth /\ [][NextHealth]_vars

(***************************************************************************)
(* SpecPaths: every way through the chat handler.  One client sends up to  *)
(* MaxIssued requests between two clears: with a message, without one,     *)
(* with one too long, and without a body; no provider has a key, or the    *)
(* first and the last have one.                                            *)
(***************************************************************************)
PathEnvs == {[i \in ProviderIds |-> Undef], ConcEnv}

PathBodies ==
    {PlainBody, Body(Undef, Undef), Body(JStr(LongestMessage \o "x"), Undef), NoBody}

InitPaths == \E env \in PathEnvs : Start(env) /\ JarvisAISystem

ArrivePaths ==
    \E ip \in {"10.0.0.1"}, body \in PathBodies :
        /\ issued[ip] < MaxIssued
        /\ Receive(1, ip, body,
                   Worlds(SortedProviders(API_PROVIDERS), HealthOpenAIAnswers,
                          HealthHuggingFaceAnswers))

NextPaths == ArrivePaths \/ Respond \/ Done \/ Tick

SpecPaths == InitPaths /\ [][NextPaths]_vars

(***************************************************************************)
(* The page, script.js: processUserMessage and getAIResponse.              *)
(***************************************************************************)
\* if (this.conversationHistory.length > 20)
HistoryMax == 20
\* this.conversationHistory.slice(-10)
HistoryKeep == 10
\* history: this.conversationHistory.slice(-6)
SentWindow == 6

\* this.backendURL, the page not being served from localhost
backendURL == "https://jarvis-ai-backend-gz9x.onrender.com"

\* { role, content, timestamp: Date.now() }
HistoryEntry(role, content, now) ==
    JObj([role |-> JStr(role), content |-> content, timestamp |-> now])

\* this.conversationHistory after push(entry) and the cut to the last 10
\* of more than 20
Pushed(history, entry) ==
    LET h == Append(history, entry)
    IN  IF Len(h) > HistoryMax THEN SliceLast(JArr(h), HistoryKeep).a ELSE h

\* the body of the request of getAIResponse, as express.json() parses it
ChatRequest(message, history) ==
    stringify(JObj([message |-> JStr(message),
                    history |-> SliceLast(JArr(history), SentWindow)]))

\* a page that takes no notice of a call under way
NeverBusy == FALSE

\* if (this.isProcessing) return
Busy == isProcessing

\* processUserMessage() up to the fetch of getAIResponse, the input field
\* holding value when it is called
processUserMessage(value, now) ==
    LET message == trim(value)
    IN  IF Busy \/ message = ""
        THEN /\ messageInput' = value
             /\ UNCHANGED <<isProcessing, conversationHistory, messagesArea,
                            typingIndicator, statusText, at, answer, calls,
                            outbox>>
        ELSE LET history == Pushed(conversationHistory,
                                   HistoryEntry("user", JStr(message), now))
             IN  /\ isProcessing' = TRUE
                 /\ messageInput' = ""
                 /\ messagesArea' = Append(messagesArea,
                        [sender |-> "user", content |-> JStr(message)])
                 /\ typingIndicator' = TRUE
                 /\ statusText' = "Processing..."
                 /\ conversationHistory' = history
                 /\ outbox' = ChatRequest(message, history)
                 /\ calls' = calls + 1
                 /\ at' = "fetch"
                 /\ answer' = NoAnswer

Err(name, message) == [name |-> name, message |-> message]

\* the catch of getAIResponse
Rethrown(error) ==
    IF error.name = "TypeError" /\ Contains(error.message, "fetch")
    THEN Err("Error", "Cannot connect to backend server. Make sure it's running on "
                      \o backendURL)
    ELSE error

\* the message the catch of processUserMessage shows
errorMessage(error) ==
    "I'm having trouble connecting to my AI servers. " \o
    (IF Contains(error.message, "backend server")
     THEN "Please make sure the backend server is running (npm start in backend folder)."
     ELSE IF Contains(error.message, "API")
     THEN "There might be an issue with the API keys. Please check the server console for details."
     ELSE "Please check your internet connection and try again.")

\* catch (error) {...} finally {...} of processUserMessage, the history
\* being history when the error is thrown
Caught(error, history) ==
    /\ conversationHistory' = history
    /\ typingIndicator' = FALSE
    /\ messagesArea' = Append(messagesArea,
           [sender |-> "ai", content |-> JStr(errorMessage(error))])
    /\ statusText' = "Connection error"
    /\ isProcessing' = FALSE
    /\ at' = "ready"
    /\ answer' = NoAnswer

\* the rest of the try of processUserMessage with the response of
\* getAIResponse, and the finally; formatAIContent calls replace() of the
\* text, which only a string has
Completed(response, now) ==
    LET history == Append(conversationHistory,
                          HistoryEntry("assistant", response.text, now))
    IN  IF response.text.t # "string"
        THEN Caught(Err("TypeError", "content.replace is not a function"), history)
        ELSE /\ conversationHistory' = history
             /\ typingIndicator' = FALSE
             /\ messagesArea' = Append(messagesArea,
                    [sender |-> "ai", content |-> response.text])
             /\ statusText' = "Response complete"
             /\ isProcessing' = FALSE
             /\ at' = "ready"
             /\ answer' = NoAnswer

\* data.response || "I apologize, ...", data.provider || "Unknown"
ResponseOf(data) ==
    [text |-> IF Truthy(Get(data, "response")) THEN Get(data, "response")
              ELSE JStr("I apologize, but I couldn't generate a response. Please try again."),
     provider |-> IF Truthy(Get(data, "provider")) THEN Get(data, "provider")
                  ELSE JStr("Unknown")]

\* errorData.error || errorData.message || 'Unknown error'
BackendErrorText(errorData) ==
    IF Truthy(Get(errorData, "error")) THEN Get(errorData, "error")
    ELSE IF Truthy(Get(errorData, "message")) THEN Get(errorData, "message")
    ELSE JStr("Unknown error")

\* what getAIResponse throws when the body of the response a has been read,
\* NoAnswer when it returns
ThrownAfterBody(a) ==
    IF ~a.ok
    THEN LET errorData == IF a.json THEN a.data
                          ELSE JObj([error |-> JStr("Unknown error")])
         IN  IF Nullish(errorData)
             THEN Err("TypeError", "Cannot read properties of null (reading 'error')")
             ELSE Err("Error", "Backend response error: " \o ToString(a.status)
                               \o " - " \o Str(BackendErrorText(errorData)))
    ELSE IF ~a.json THEN Err("SyntaxError", "Unexpected token < in JSON at position 0")
    ELSE IF Nullish(a.data)
    THEN Err("TypeError", "Cannot read properties of null (reading 'response')")
    ELSE NoAnswer

\* the user types text, or clears the field with Escape
Type(text) ==
    /\ messageInput' = text
    /\ UNCHANGED <<isProcessing, conversationHistory, messagesArea,
                   typingIndicator, statusText, at, answer, timers, calls,
                   outbox>>
    /\ UNCHANGED server

\* inputForm 'submit'
Submit(now) ==
    /\ processUserMessage(messageInput, now)
    /\ UNCHANGED <<timers, server>>

\* sendButton 'click'
Click(now) ==
    /\ processUserMessage(messageInput, now)
    /\ UNCHANGED <<timers, server>>

\* a .quick-btn 'click': messageInput.value = message, processUserMessage()
Quick(message, now) ==
    /\ processUserMessage(message, now)
    /\ UNCHANGED <<timers, server>>

\* recognition.onresult: the transcript goes to the input field and a timer
\* of 500 ms is set
VoiceResult(transcript) ==
    /\ messageInput' = transcript
    /\ timers' = timers + 1
    /\ UNCHANGED <<isProcessing, conversationHistory, messagesArea,
                   typingIndicator, statusText, at, answer, calls, outbox>>
    /\ UNCHANGED server

\* the timer of recognition.onresult fires
VoiceTimer(now) ==
    /\ timers > 0
    /\ timers' = timers - 1
    /\ processUserMessage(messageInput, now)
    /\ UNCHANGED server

\* the fetch of getAIResponse settles with a: rejected, or resolved with a
\* response whose body is then read
FetchSettles(a) ==
    /\ at = "fetch"
    /\ IF a.kind = "reject"
       THEN Caught(Rethrown(Err("TypeError", a.message)), conversationHistory)
       ELSE /\ at' = "json"
            /\ answer' = a
            /\ UNCHANGED <<isProcessing, conversationHistory, messagesArea,
                           typingIndicator, statusText>>
    /\ UNCHANGED <<messageInput, timers, calls, outbox, server>>

\* response.json() settles: the rest of getAIResponse and of
\* processUserMessage
BodyRead(now) ==
    /\ at = "json"
    /\ IF ThrownAfterBody(answer) # NoAnswer
       THEN Caught(Rethrown(ThrownAfterBody(answer)), conversationHistory)
       ELSE Completed(ResponseOf(answer.data), now)
    /\ UNCHANGED <<messageInput, timers, calls, outbox, server>>

(***************************************************************************)
(* SpecPage: the page alone.  The user types, submits, clicks, uses a      *)
(* quick button and the microphone in any order, up to MaxCalls requests;  *)
(* the backend answers each in any of the ways below, or not yet.          *)
(***************************************************************************)
\* chat requests the page sends
MaxCalls == 2

\* pending timers of recognition.onresult
MaxTimers == 1

TypedTexts == {"", "   ", "What is TLA+?"}

QuickMessage == "Tell me a joke"

Transcript == "What is TLA+?"

PageAnswers ==
    {Reject("Failed to fetch"),
     JsonResponse(TRUE, 200, JObj([response |-> JStr(Long),
                                   provider |-> JStr("Groq-Ultra-Fast")])),
     JsonResponse(TRUE, 200, JObj([provider |-> JStr("Groq-Ultra-Fast")])),
     JsonResponse(TRUE, 200, JObj([response |-> JNum(42)])),
     JsonResponse(TRUE, 200, JNull),
     TextResponse(TRUE, 200, "<html>"),
     JsonResponse(FALSE, 503, JObj([error |-> JStr(NoProviders.body.error),
                                    message |-> JStr(NoProviders.body.message)])),
     JsonResponse(FALSE, 429, JObj([error |-> JStr(RateLimited.body.error),
                                    message |-> JStr(RateLimited.body.message)])),
     TextResponse(FALSE, 502, "Bad Gateway")}

InitPage == Start(RateEnv) /\ JarvisAISystem

Typing == \E text \in TypedTexts : Type(text)

\* a call that would send a request is left out once MaxCalls are sent
Submitting ==
    \E now \in {JNum(1000)} : (isProcessing \/ calls < MaxCalls) /\ Submit(now)

Clicking ==
    \E now \in {JNum(1000)} : (isProcessing \/ calls < MaxCalls) /\ Click(now)

QuickButton ==
    \E now \in {JNum(1000)} :
        (isProcessing \/ calls < MaxCalls) /\ Quick(QuickMessage, now)

Speaking == timers < MaxTimers /\ VoiceResult(Transcript)

TimerFires ==
    \E now \in {JNum(1000)} : (isProcessing \/ calls < MaxCalls) /\ VoiceTimer(now)

Settle == \E a \in PageAnswers : FetchSettles(a)

Read == \E now \in {JNum(1000)} : BodyRead(now)

NextPage ==
    Typing \/ Submitting \/ Clicking \/ QuickButton \/ Speaking \/ TimerFires
        \/ Settle \/ Read

SpecPage == InitPage /\ [][NextPage]_vars

(***************************************************************************)
(* What the claims speak of.                                               *)
(***************************************************************************)
Range(q) == {q[k] : k \in 1..Len(q)}

MessageOf(r) == Get(req[r].body, "message")

\* request r got past the admission check
Admitted(r) == pc[r] # "idle" /\ ~(pc[r] = "done" /\ resp[r].status = 429)

\* a non-empty string of at most 10,000 characters
ValidText(m) == m.t = "string" /\ Len(m.s) >= 1 /\ Len(m.s) <= 10000

\* the providers whose credential is present and longer than 10 characters
KeyLongEnough(i) ==
    API_PROVIDERS[i].key.t = "string" /\ Len(API_PROVIDERS[i].key.s) > 10
EligibleIds == {i \in ProviderIds : KeyLongEnough(i)}

IdOf(name) == CHOOSE i \in ProviderIds : API_PROVIDERS[i].name = name

\* a text longer than 10 characters
LongText(v) == v.t = "string" /\ Len(v.s) > 10

\* what the call of provider i ends in for request r
ResultOf(r, i) ==
    IF SliceThrows(HistoryOf(req[r].body)) THEN Throw("history.slice is not a function")
    ELSE callAIProvider(API_PROVIDERS[i], world[r][API_PROVIDERS[i].name])

\* the call of provider i would succeed for request r
WouldSucceed(r, i) ==
    /\ API_PROVIDERS[i].name \in DOMAIN world[r]
    /\ ResultOf(r, i).kind = "return"
    /\ LongText(ResultOf(r, i).value)

Succeeding(r) == {i \in EligibleIds : WouldSucceed(r, i)}

\* the succeeding provider with the lowest priority number
Winner(r) ==
    CHOOSE i \in Succeeding(r) :
        \A j \in Succeeding(r) : API_PROVIDERS[i].priority <= API_PROVIDERS[j].priority

\* the names of the eligible providers in ascending priority order
EligibleInOrder ==
    [k \in 1..Cardinality(EligibleIds) |->
        API_PROVIDERS[CHOOSE i \in EligibleIds :
            Cardinality({j \in EligibleIds :
                API_PROVIDERS[j].priority < API_PROVIDERS[i].priority}) = k - 1].name]

\* the k-th upstream call of request r has ended
Returned(r, k) == pc[r] = "done" \/ k < Len(contacted[r])

(***************************************************************************)
(* C1: for a valid message and an assignment of answers in which some      *)
(* eligible provider's call would succeed, the 200 response names the      *)
(* succeeding provider with the lowest priority number, and no provider    *)
(* of a higher priority number than that one is ever contacted.            *)
(***************************************************************************)
C1_HighestPriorityWins ==
    \A r \in Reqs :
        (Admitted(r) /\ ValidText(MessageOf(r)) /\ Succeeding(r) # {}) =>
            /\ \A n \in Range(contacted[r]) :
                   API_PROVIDERS[IdOf(n)].priority <= API_PROVIDERS[Winner(r)].priority
            /\ pc[r] = "done" =>
                   /\ resp[r].status = 200
                   /\ resp[r].body.provider = API_PROVIDERS[Winner(r)].name

\* a 200 from a provider that is not the first one tried, while a provider
\* after it would have succeeded too and was not contacted
C1_Witness ==
    \E r \in Reqs :
        /\ pc[r] = "done" /\ resp[r].status = 200
        /\ Len(contacted[r]) >= 2
        /\ resp[r].body.provider = API_PROVIDERS[Winner(r)].name
        /\ \E j \in Succeeding(r) :
               /\ j # Winner(r)
               /\ API_PROVIDERS[j].name \notin Range(contacted[r])

(***************************************************************************)
(* C2: two eligible chat-completion providers, the priority-1 one answers  *)
(* a non-success status, the priority-2 one answers success with a         *)
(* non-empty choices list whose first message content is longer than 10    *)
(* characters: the request ends in 200 with that content as response and   *)
(* the priority-2 provider's name as provider.                             *)
(***************************************************************************)
ChoicesListContent(f) ==
    f.data.f["choices"].a[1].f["message"].f["content"]

IsChoicesListAnswer(f) ==
    /\ f.kind = "response" /\ f.ok /\ f.json
    /\ f.data.t = "object" /\ "choices" \in DOMAIN f.data.f
    /\ f.data.f["choices"].t = "array" /\ Len(f.data.f["choices"].a) > 0
    /\ f.data.f["choices"].a[1].t = "object"
    /\ "message" \in DOMAIN f.data.f["choices"].a[1].f
    /\ LongText(ChoicesListContent(f))

C2_Scenario(r) ==
    /\ pc[r] = "done" /\ Admitted(r)
    /\ req[r].body = PlainBody
    /\ EligibleIds = {1, 2}
    /\ world[r][API_PROVIDERS[1].name].kind = "response"
    /\ ~world[r][API_PROVIDERS[1].name].ok
    /\ IsChoicesListAnswer(world[r][API_PROVIDERS[2].name])

\* C2: in that scenario the response is the 200 of the priority-2 provider
C2_SecondProviderAnswers ==
    \A r \in Reqs :
        C2_Scenario(r) =>
            /\ resp[r].status = 200
            /\ resp[r].body.response = ChoicesListContent(world[r][API_PROVIDERS[2].name])
            /\ resp[r].body.provider = API_PROVIDERS[2].name

(***************************************************************************)
(* C5: an admitted request whose message is missing, is no string, is the  *)
(* empty string or is empty after trimming white space is answered 400,    *)
(* and no upstream call is made for it.                                    *)
(***************************************************************************)
\* s.trim() = ""
EmptyAfterTrim(s) == \A k \in 1..Len(s) : SubSeq(s, k, k) = " "

NoMessageText(m) == m.t # "string" \/ EmptyAfterTrim(m.s)

\* C5: a message with no text is answered 400 and no provider is called
C5_BlankMessageRejected ==
    \A r \in Reqs :
        (Admitted(r) /\ NoMessageText(MessageOf(r))) =>
            /\ pc[r] = "done"
            /\ resp[r].status = 400
            /\ contacted[r] = <<>>

(***************************************************************************)
(* C6: a provider whose call returns, without an error, a text of 10       *)
(* characters or fewer or no text is not the provider of a 200 response,   *)
(* and the next eligible provider in priority order is called after it; a  *)
(* 200 response carries a text longer than 10 characters.                  *)
(***************************************************************************)
ShortReturn(res) == res.kind = "return" /\ ~LongText(res.value)

\* the eligible providers of a higher priority number than provider i
After(i) ==
    {j \in EligibleIds : API_PROVIDERS[j].priority > API_PROVIDERS[i].priority}

NextAfter(i) ==
    CHOOSE j \in After(i) :
        \A l \in After(i) : API_PROVIDERS[j].priority <= API_PROVIDERS[l].priority

\* C6: a short or absent text is no success and the next provider is called
C6_QualityFloor ==
    \A r \in Reqs :
        /\ (pc[r] = "done" /\ resp[r].status = 200) => LongText(resp[r].body.response)
        /\ \A k \in 1..Len(contacted[r]) :
               LET i == IdOf(contacted[r][k]) IN
               (Returned(r, k) /\ ShortReturn(ResultOf(r, i))) =>
                   /\ ~(resp[r].status = 200 /\ resp[r].body.provider = contacted[r][k])
                   /\ After(i) # {} =>
                          /\ Len(contacted[r]) > k
                          /\ contacted[r][k + 1] = API_PROVIDERS[NextAfter(i)].name

\* a provider returned exactly 10 characters, the next an empty text, and
\* the provider after them was called and answered the request
C6_Witness ==
    \E r \in Reqs :
        /\ Len(contacted[r]) >= 3
        /\ ResultOf(r, IdOf(contacted[r][1])) = Return(JStr(TenChars))
        /\ ResultOf(r, IdOf(contacted[r][2])) = Return(JStr(""))
        /\ pc[r] = "done" /\ resp[r].status = 200

(***************************************************************************)
(* C7: when every credential is absent or not longer than 10 characters, a *)
(* valid admitted request ends in 503 'No API providers configured', with  *)
(* no providers_tried list and no upstream call, and the response is not   *)
(* that of the failure of all providers.                                   *)
(***************************************************************************)
NoCredential(i) ==
    \/ API_PROVIDERS[i].key.t = "undefined"
    \/ Len(API_PROVIDERS[i].key.s) <= 10

\* C7: no eligible provider gives the 503 without providers_tried, no call
C7_NoProvidersConfigured ==
    \A r \in Reqs :
        (/\ pc[r] = "done" /\ Admitted(r)
         /\ ValidText(MessageOf(r))
         /\ \A i \in ProviderIds : NoCredential(i)) =>
            /\ resp[r].status = 503
            /\ resp[r].body.error = "No API providers configured"
            /\ "providers_tried" \notin DOMAIN resp[r].body
            /\ contacted[r] = <<>>

C7_Witness ==
    \E r \in Reqs :
        /\ pc[r] = "done" /\ Admitted(r)
        /\ ValidText(MessageOf(r))
        /\ \A i \in ProviderIds : NoCredential(i)
        /\ \E i \in ProviderIds : API_PROVIDERS[i].key = JStr(TenChars)
        /\ resp[r].status = 503

(***************************************************************************)
(* C8: when every eligible provider was attempted and none succeeded, the  *)
(* request ends in 503 whose providers_tried is the list of the eligible   *)
(* providers' names in ascending priority order, with the fixed            *)
(* retry-later message and none of the providers' error strings.           *)
(***************************************************************************)
\* what the providers' calls threw for request r
ThrownTexts(r) ==
    {ResultOf(r, i).message : i \in {j \in EligibleIds : ResultOf(r, j).kind = "throw"}}

\* the strings of a 503 body
BodyStrings(body) ==
    {body.error, body.message} \cup
    (IF "providers_tried" \in DOMAIN body THEN Range(body.providers_tried) ELSE {})

C8_Scenario(r) ==
    /\ pc[r] = "done" /\ Admitted(r)
    /\ ValidText(MessageOf(r))
    /\ EligibleIds # {}
    /\ Succeeding(r) = {}

\* C8: all eligible providers failed gives the 503 listing them in order
C8_AllFailed ==
    \A r \in Reqs :
        C8_Scenario(r) =>
            /\ resp[r].status = 503
            /\ DOMAIN resp[r].body = {"error", "message", "providers_tried"}
            /\ resp[r].body.providers_tried = EligibleInOrder
            /\ resp[r].body.error = "All AI providers are currently unavailable"
            /\ resp[r].body.message =
                   "Please try again in a moment. If the issue persists, contact support."
            /\ \A t \in ThrownTexts(r), b \in BodyStrings(resp[r].body) : ~Contains(b, t)

\* three providers were called, one of them threw, and all failed
C8_Witness ==
    \E r \in Reqs :
        /\ C8_Scenario(r)
        /\ Len(contacted[r]) >= 3
        /\ Len(log[r]) >= 1
        /\ Cardinality(EligibleIds) < Len(API_PROVIDERS)

(***************************************************************************)
(* C10: a provider whose credential is empty or absent, is the placeholder *)
(* that validateAPIKeys recognises, or has 10 characters or fewer is never *)
(* in the list the chat endpoint tries and is never sent a request.        *)
(***************************************************************************)
BadCredential(i) ==
    \/ API_PROVIDERS[i].name \in Range(startup.missing)
    \/ NoCredential(i)

\* C10: a provider with a bad credential is never in the list nor called
C10_BadCredentialNeverTried ==
    \A r \in Reqs, i \in ProviderIds :
        BadCredential(i) =>
            /\ API_PROVIDERS[i].name \notin Range(Names(sortedProviders[r]))
            /\ API_PROVIDERS[i].name \notin Range(contacted[r])

(***************************************************************************)
(* C3: of the requests one client sends with no clear in between, the      *)
(* first 60 pass the admission check and the 61st is answered 429; at most *)
(* 60 requests of a client are admitted between two clears.                *)
(***************************************************************************)
C3_SixtyFirstRejected ==
    /\ \A c \in Clients : CountOf(c) <= 60
    /\ \A r \in Reqs :
           pc[r] # "idle" =>
               /\ ordinal[r] <= 60 => Admitted(r)
               /\ ordinal[r] = 61 => (pc[r] = "done" /\ resp[r].status = 429)

(***************************************************************************)
(* C4: a step in which a client's counter decreases, or in which the       *)
(* window is reset, leaves the counter map empty; a client that was being  *)
(* rejected and whose entry a reset has cleared is admitted on its next    *)
(* request, and its counter is then 1.                                     *)
(***************************************************************************)
CountIn(m, c) == IF c \in DOMAIN m THEN m[c] ELSE 0

C4_Step ==
    /\ (\E c \in Clients : \/ CountIn(requestCounts', c) < CountIn(requestCounts, c)
                           \/ issued'[c] < issued[c])
           => requestCounts' = EmptyMap
    /\ \A r \in Reqs :
           (/\ pc[r] = "idle" /\ pc'[r] # "idle"
            /\ req'[r].ip \in rejected
            /\ req'[r].ip \notin DOMAIN requestCounts)
               => /\ ~(pc'[r] = "done" /\ resp'[r].status = 429)
                  /\ requestCounts'[req'[r].ip] = 1

\* C4: every step keeps to C4_Step
C4_WindowReset == [][C4_Step]_vars

\* a reset has cleared the map while the 429 of a rejected client is still
\* to be delivered
C4_Witness ==
    \E r \in Reqs :
        /\ pc[r] = "done" /\ resp[r].status = 429
        /\ req[r].ip \in rejected
        /\ requestCounts = EmptyMap
        /\ ordinal[r] > issued[req[r].ip]

(***************************************************************************)
(* C9: whatever a provider attempt fails with, the handler goes on with    *)
(* the next provider: no 500 is sent, the loop does not end early, no      *)
(* response body contains an upstream error text, and two requests whose   *)
(* providers' answers differ only in their error texts get the same        *)
(* response.                                                               *)
(***************************************************************************)
\* the error text an upstream answer carries
UpstreamText(f) ==
    IF f.kind = "reject" THEN {f.message}
    ELSE IF f.ok THEN {}
    ELSE IF f.json THEN {Str(ErrorText(f.data))}
    ELSE {f.text}

\* the answer without its error text and status
Erased(f) ==
    IF f.kind = "reject" THEN Reject("")
    ELSE IF f.ok THEN f
    ELSE TextResponse(FALSE, 0, "")

SameButErrorTexts(w1, w2) ==
    /\ DOMAIN w1 = DOMAIN w2
    /\ \A n \in DOMAIN w1 : Erased(w1[n]) = Erased(w2[n])

\* the strings of a response body
ResponseStrings(a) ==
    IF a.status = 200
    THEN {Str(a.body.response), a.body.provider, Str(a.body.model)}
    ELSE BodyStrings(a.body)

\* the error texts of the calls of request r that have ended
ErrorTexts(r) ==
    UNION {UpstreamText(world[r][contacted[r][k]]) \cup
           (IF ResultOf(r, IdOf(contacted[r][k])).kind = "throw"
            THEN {ResultOf(r, IdOf(contacted[r][k])).message} ELSE {}) :
           k \in {l \in 1..Len(contacted[r]) : Returned(r, l)}}

\* C9: provider failures stay inside the loop and their texts out of bodies
C9_FailuresContained ==
    /\ \A r \in Reqs :
           /\ resp[r].status # 500
           /\ \A k \in 1..Len(contacted[r]) :
                  LET i == IdOf(contacted[r][k]) IN
                  (Returned(r, k) /\ ResultOf(r, i).kind = "throw") =>
                      /\ After(i) # {} =>
                             /\ Len(contacted[r]) > k
                             /\ contacted[r][k + 1] = API_PROVIDERS[NextAfter(i)].name
                      /\ (After(i) = {} /\ pc[r] = "done") =>
                             /\ resp[r].status = 503
                             /\ resp[r].body.providers_tried = EligibleInOrder
           /\ pc[r] = "done" =>
                  \A t \in ErrorTexts(r) \cup ThrownTexts(r), b \in ResponseStrings(resp[r]) :
                      ~Contains(b, t)
           /\ (pc[r] = "done" /\ SliceThrows(HistoryOf(req[r].body))) =>
                  /\ resp[r].status = 503
                  /\ resp[r].body.providers_tried = EligibleInOrder
    /\ \A r1, r2 \in Reqs :
           (/\ pc[r1] = "done" /\ pc[r2] = "done"
            /\ req[r1].body = req[r2].body
            /\ SameButErrorTexts(world[r1], world[r2]))
               => resp[r1] = resp[r2]

\* two requests answered 503 after both providers failed, with different
\* error texts for each provider
C9_Witness ==
    \E r1, r2 \in Reqs :
        /\ pc[r1] = "done" /\ pc[r2] = "done"
        /\ resp[r1].status = 503 /\ resp[r2].status = 503
        /\ Len(log[r1]) = 2 /\ Len(log[r2]) = 2
        /\ SameButErrorTexts(world[r1], world[r2])
        /\ \A n \in DOMAIN world[r1] : world[r1][n] # world[r2][n]

(***************************************************************************)
(* C11: when the history of a request is a list of more than 6 turns, the  *)
(* message list of every fetch sent to a chat-completion provider is the   *)
(* system prompt, the last 6 turns of the history in their order, and the  *)
(* current user message; no turn before the last 6 is in it.               *)
(***************************************************************************)
ChatCompletion(name) == API_PROVIDERS[IdOf(name)].type = "openai-compatible"

SentMessages(out) == out.body.f["messages"].a

C11_LastSixTurns ==
    \A r \in Reqs : \A k \in 1..Len(fetched[r]) :
        LET h == Get(req[r].body, "history")
            m == SentMessages(fetched[r][k])
        IN  (ChatCompletion(fetched[r][k].provider) /\ h.t = "array" /\ Len(h.a) > 6) =>
                /\ Len(m) = 8
                /\ m[1].f["role"] = JStr("system")
                /\ \A j \in 1..6 : m[j + 1] = h.a[Len(h.a) - 6 + j]
                /\ m[8] = JObj([role |-> JStr("user"), content |-> MessageOf(r)])
                /\ \A j \in 1..(Len(h.a) - 6) : h.a[j] \notin Range(m)

\* a history of 9 turns has been sent to the second chat-completion
\* provider tried
C11_Witness ==
    \E r \in Reqs :
        /\ Get(req[r].body, "history").t = "array"
        /\ Len(Get(req[r].body, "history").a) = 9
        /\ Len(fetched[r]) >= 2
        /\ ChatCompletion(fetched[r][2].provider)
        /\ Len(SentMessages(fetched[r][2])) = 8

(***************************************************************************)
(* C12: the step in which a request is answered 429 leaves every counter   *)
(* as it was, the client's own included, sends no fetch, and answers with  *)
(* the rate-limit response whatever the message is, a missing or invalid   *)
(* one included.                                                           *)
(***************************************************************************)
\* request r arrives in this step
Arrives(r) == pc[r] = "idle" /\ pc'[r] # "idle"

C12_Step ==
    \A r \in Reqs :
        (Arrives(r) /\ CountOf(req'[r].ip) > 60) =>
            /\ requestCounts' = requestCounts
            /\ pc'[r] = "done"
            /\ resp'[r] = RateLimited
            /\ contacted'[r] = <<>>
            /\ fetched'[r] = <<>>

\* C12: every step keeps to C12_Step
C12_RejectedLeavesCounter == [][C12_Step]_vars

\* a request without a message has been answered 429, and its client's
\* counter is 61 still
C12_Witness ==
    \E r \in Reqs :
        /\ pc[r] = "done" /\ resp[r].status = 429
        /\ req[r].body = Body(Undef, Undef)
        /\ CountOf(req[r].ip) = 61
        /\ issued[req[r].ip] = 62

(***************************************************************************)
(* C13: whenever the call of a chat-completion provider has ended on a     *)
(* non-success response whose JSON body has a nested error message M, the  *)
(* error it raised is '<provider name> API error: M', at every position of *)
(* the loop and after every earlier request.                               *)
(***************************************************************************)
\* the answer is a non-success response with a nested error message
HasNestedMessage(f) ==
    /\ f.kind = "response" /\ ~f.ok /\ f.json
    /\ f.data.t = "object" /\ "error" \in DOMAIN f.data.f
    /\ f.data.f["error"].t = "object" /\ "message" \in DOMAIN f.data.f["error"].f
    /\ f.data.f["error"].f["message"].t = "string"

NestedMessage(f) == f.data.f["error"].f["message"].s

\* the k-th call of request r went to a chat-completion provider and has
\* ended on a response with a nested error message
ErrorCall(r, k) ==
    /\ Returned(r, k)
    /\ ChatCompletion(contacted[r][k])
    /\ HasNestedMessage(world[r][contacted[r][k]])

\* the error of the k-th call of request r has the text the claim gives
ClassifiedAsNested(r, k) ==
    (contacted[r][k] \o " failed: " \o contacted[r][k] \o " API error: "
        \o NestedMessage(world[r][contacted[r][k]])) \in Range(log[r])

GenericText(name) == API_PROVIDERS[IdOf(name)].type = "huggingface"

\* [{"generated_text": t}]
ListShape(d) ==
    /\ d.t = "array" /\ Len(d.a) = 1
    /\ d.a[1].t = "object" /\ "generated_text" \in DOMAIN d.a[1].f

\* {"generated_text": t}
ObjectShape(d) == d.t = "object" /\ "generated_text" \in DOMAIN d.f

GeneratedText(d) == IF ListShape(d) THEN d.a[1].f["generated_text"] ELSE d.f["generated_text"]

ErrorShape(d) == d.t = "object" /\ ~ObjectShape(d) /\ "error" \in DOMAIN d.f

Raised(r, name, text) == (name \o " failed: " \o text) \in Range(log[r])

C14_GeneratedTextShapes ==
    \A r \in Reqs : \A k \in 1..Len(contacted[r]) :
        LET name == contacted[r][k]
            f == world[r][name]
        IN  (/\ Returned(r, k) /\ GenericText(name)
             /\ f.kind = "response" /\ f.ok /\ f.json) =>
                IF ListShape(f.data) \/ ObjectShape(f.data)
                THEN /\ ~(\E l \in Range(log[r]) : Contains(l, name \o " failed: "))
                     /\ LongText(GeneratedText(f.data)) =>
                            /\ resp[r].status = 200
                            /\ resp[r].body.response = GeneratedText(f.data)
                            /\ resp[r].body.provider = name
                ELSE IF ErrorShape(f.data)
                THEN Raised(r, name, "HuggingFace error: " \o Str(f.data.f["error"]))
                ELSE Raised(r, name, "Invalid HuggingFace response format")

(***************************************************************************)
(* C15: every 200 response carries a processing_time_ms that is a number,  *)
(* the time from the start of the request to the building of the response, *)
(* which is not negative and not later than the time of the response.      *)
(***************************************************************************)
C15_ProcessingTimeIsNumber ==
    \A r \in Reqs :
        (pc[r] = "done" /\ resp[r].status = 200) =>
            /\ resp[r].body.processing_time_ms.t = "number"
            /\ resp[r].body.processing_time_ms.n >= 0
            /\ resp[r].body.processing_time_ms.n <= resp[r].body.timestamp.n

(***************************************************************************)
(* C16: within one request at most one upstream call is in flight; the     *)
(* calls go to eligible providers in strictly ascending priority, so to    *)
(* each at most once; every call but the last has failed or returned a     *)
(* text of 10 characters or fewer; a 200 names the provider of the last    *)
(* call; a step starts at most one call, starts none while a call of the   *)
(* request stays in flight, and starts none once the response is sent.     *)
(***************************************************************************)
\* the calls of request r that have not ended
InFlight(r) == {k \in 1..Len(contacted[r]) : ~Returned(r, k)}

PriorityOf(name) == API_PROVIDERS[IdOf(name)].priority

\* the step starts the call new of request r as the one after its calls so far
StartsCall(r, new) ==
    /\ contacted'[r] = Append(contacted[r], new)
    /\ Len(fetched'[r]) = Len(contacted'[r])
    /\ fetched'[r][Len(fetched'[r])].provider = new
    /\ IdOf(new) \in EligibleIds
    /\ contacted[r] # <<>> =>
           PriorityOf(contacted[r][Len(contacted[r])]) < PriorityOf(new)

C16_Step ==
    \A r \in Reqs :
        /\ Cardinality(InFlight(r)') <= 1
        /\ contacted'[r] # contacted[r] =>
               \/ contacted'[r] = <<>>
               \/ /\ pc[r] # "done"
                  /\ StartsCall(r, contacted'[r][Len(contacted'[r])])
                  /\ pc[r] = "await" =>
                         /\ InFlight(r)' \cap InFlight(r) = {}
                         /\ ~WouldSucceed(r, IdOf(contacted[r][Len(contacted[r])]))
        /\ (pc'[r] = "done" /\ resp'[r].status = 200) =>
               /\ contacted'[r] = contacted[r]
               /\ contacted[r] # <<>>
               /\ resp'[r].body.provider = contacted[r][Len(contacted[r])]

\* C16: every step keeps to C16_Step
C16_Sequential == [][C16_Step]_vars

\* the third call of a request succeeded after one call had thrown and one
\* had returned a short text, and a fourth eligible provider was not called
C16_Witness ==
    \E r \in Reqs :
        /\ pc[r] = "done" /\ resp[r].status = 200
        /\ Len(contacted[r]) = 3
        /\ Cardinality(EligibleIds) = 4
        /\ Len(log[r]) = 1

(***************************************************************************)
(* C17: in every state each client's counter is the number of its requests *)
(* that passed the admission check since the last clear, and is not        *)
(* negative; the step that admits a request raises its client's counter by *)
(* exactly one and leaves the other counters alone; no other step but the  *)
(* clear, which empties the map, changes a counter, whatever requests are  *)
(* suspended at their upstream calls.                                      *)
(***************************************************************************)
C17_Counted ==
    /\ DOMAIN requestCounts \subseteq Clients
    /\ \A c \in Clients : CountOf(c) = admitted[c] /\ CountOf(c) >= 0

C17_Step ==
    /\ C17_Counted'
    /\ \A r \in Reqs :
           (Arrives(r) /\ ~(pc'[r] = "done" /\ resp'[r].status = 429)) =>
               /\ CountIn(requestCounts', req'[r].ip) = CountOf(req'[r].ip) + 1
               /\ \A c \in Clients \ {req'[r].ip} :
                      CountIn(requestCounts', c) = CountOf(c)
    /\ requestCounts' # requestCounts =>
           \/ \E r \in Reqs : Arrives(r)
           \/ requestCounts' = EmptyMap

\* C17: every step keeps to C17_Step
C17_AtomicIncrement == [][C17_Step]_vars

\* two requests of one client are suspended at their upstream calls, its
\* counter is 2, and the other client's counter is 1
C17_Witness ==
    \E c \in Clients : \E d \in Clients \ {c} :
        /\ \A r \in Reqs : pc[r] = "await" /\ req[r].ip = c
        /\ CountOf(c) = 2
        /\ CountOf(d) = 1

(***************************************************************************)
(* C18: an upstream call that is not answered is ended when its 30 seconds *)
(* have passed, so no call of a request is in flight after its timeout,    *)
(* and the timeout is handled as a failure of the provider: it is logged,  *)
(* the next provider is tried, and the request ends in 200 or 503.         *)
(***************************************************************************)
C18_TimeoutEndsCall ==
    \A r \in Reqs :
        /\ pc[r] # "overdue"
        /\ \A k \in 1..Len(contacted[r]) :
               (Returned(r, k) /\ world[r][contacted[r][k]].kind = "silent") =>
                   /\ Raised(r, contacted[r][k],
                             "network timeout at: " \o fetched[r][k].url)
                   /\ pc[r] = "done" => resp[r].status \in {200, 503}

(***************************************************************************)
(* C19: the step in which a request arrives answers it 429 when its        *)
(* client's counter is over 60, whatever its message; otherwise it raises  *)
(* that counter by exactly one whatever becomes of the request: a 500 for  *)
(* a missing body, a 400 for an invalid message, both before the provider  *)
(* list is built, a 503 for an empty list, or a first upstream call.  No   *)
(* later step of the request changes the counter.                          *)
(***************************************************************************)
C19_Step ==
    /\ \A r \in Reqs :
           Arrives(r) =>
               LET ip == req'[r].ip
                   m == Get(req'[r].body, "message")
               IN  IF CountOf(ip) > 60
                   THEN pc'[r] = "done" /\ resp'[r].status = 429
                   ELSE /\ CountIn(requestCounts', ip) = CountOf(ip) + 1
                        /\ IF Nullish(req'[r].body)
                           THEN resp'[r].status = 500 /\ sortedProviders'[r] = <<>>
                           ELSE IF ~ValidText(m) /\ ~(m.t = "string" /\ Len(m.s) > 10000)
                           THEN resp'[r] = MessageRequired /\ sortedProviders'[r] = <<>>
                           ELSE IF ~ValidText(m)
                           THEN resp'[r] = MessageTooLong /\ sortedProviders'[r] = <<>>
                           ELSE IF EligibleIds = {}
                           THEN resp'[r] = NoProviders /\ contacted'[r] = <<>>
                           ELSE Len(contacted'[r]) = 1
    /\ \A r \in Reqs :
           (pc[r] # "idle" /\ ~(\E q \in Reqs : Arrives(q))) =>
               \/ requestCounts' = requestCounts
               \/ requestCounts' = EmptyMap

\* C19: every step keeps to C19_Step
C19_AdmissionFirst == [][C19_Step]_vars

\* a request without a body was the 61st of its client and took the last
\* of the quota, and it is answered 500
C19_Witness ==
    \E r \in Reqs :
        /\ pc[r] = "done" /\ resp[r].status = 500
        /\ ordinal[r] = 61
        /\ CountOf(req[r].ip) = 61

(***************************************************************************)
(* C20: an admitted request whose message is a string of more than 10,000  *)
(* characters is answered 400 'Message too long' and no provider is        *)
(* contacted for it; one whose message has exactly 10,000 characters is    *)
(* not answered 400: it gets the 503 of an empty provider list, or its     *)
(* first eligible provider is called.                                      *)
(***************************************************************************)
C20_LengthBoundary ==
    \A r \in Reqs :
        LET m == MessageOf(r) IN
        (Admitted(r) /\ m.t = "string") =>
            /\ Len(m.s) > 10000 =>
                   /\ pc[r] = "done"
                   /\ resp[r].status = 400
                   /\ resp[r].body.error = "Message too long"
                   /\ contacted[r] = <<>>
                   /\ fetched[r] = <<>>
            /\ Len(m.s) = 10000 =>
                   /\ resp[r].status # 400
                   /\ IF EligibleIds = {}
                      THEN resp[r] = NoProviders
                      ELSE /\ Len(contacted[r]) >= 1
                           /\ contacted[r][1] = EligibleInOrder[1]
                           /\ fetched[r][1].body.f[IF ChatCompletion(contacted[r][1])
                                                   THEN "messages" ELSE "inputs"] # Undef

\* a message of exactly 10,000 characters is on its way to a provider
C20_Witness ==
    \E r \in Reqs :
        /\ pc[r] = "await"
        /\ MessageOf(r).t = "string"
        /\ Len(MessageOf(r).s) = 10000
        /\ Len(fetched[r]) >= 1

(***************************************************************************)
(* C21: no chat request and no health request changes the provider list:   *)
(* after every step it has the same elements with the same fields in the   *)
(* same order as before, which is the configuration order with the keys    *)
(* of the environment; what /health reports of the list is what was        *)
(* reported when the process started; and a request that has been          *)
(* answered leaves nothing behind but the counter map.                     *)
(***************************************************************************)
\* nothing of request slot r is kept
NothingKept(r) ==
    /\ req[r] = NoReq
    /\ world[r] = <<>>
    /\ sortedProviders[r] = <<>>
    /\ idx[r] = 0
    /\ resp[r] = NoResp
    /\ contacted[r] = <<>>
    /\ fetched[r] = <<>>
    /\ log[r] = <<>>

\* the list is the configured one, in the configuration order
AsConfigured(providers) ==
    providers = LoadProviders([i \in ProviderIds |-> providers[i].key])

C21_Step ==
    /\ API_PROVIDERS' = API_PROVIDERS
    /\ AsConfigured(API_PROVIDERS')
    /\ startup' = startup
    /\ health' # NoResp =>
           /\ health'.body.apis_total = Len(ProviderConfig)
           /\ health'.body.apis_configured = startup.configured
           /\ health'.body.keys_valid = startup.keysValid
    /\ \A r \in Reqs : pc'[r] = "idle" => NothingKept(r)'

C21_ProvidersUnchanged == [][C21_Step]_vars

\* a second chat request has been answered by a provider after a health
\* request, and the lookup had left a provider out
C21_Witness ==
    /\ health # NoResp
    /\ pc[1] = "done"
    /\ resp[1].status = 200
    /\ ordinal[1] = 2
    /\ Len(sortedProviders[1]) < Len(API_PROVIDERS)

(***************************************************************************)
(* C22: the chat handler sends exactly one response for a request.  At no  *)
(* time has it sent two; it has sent none while it waits for a provider,   *)
(* and one when it has returned.  The response is the one of the path      *)
(* taken: 429 for a client over the limit, 500 without a body, 400 without *)
(* a message or with one too long, 503 when no provider is eligible, 200   *)
(* from the provider called last, or 503 after every eligible provider     *)
(* was called.  Once it is sent, no provider is called and no other        *)
(* response follows.                                                       *)
(***************************************************************************)
\* the status of the path request r takes up to the provider loop, 0 when
\* it reaches the loop
StatusBeforeLoop(r) ==
    LET body == req[r].body
        message == Get(body, "message")
    IN  IF req[r].ip \in rejected THEN 429
        ELSE IF Nullish(body) THEN 500
        ELSE IF ~Truthy(message) \/ message.t # "string" THEN 400
        ELSE IF Len(message.s) > 10000 THEN 400
        ELSE IF EligibleIds = {} THEN 503
        ELSE 0

\* the response of a returned handler is the one of its path
OnePerPath(r) ==
    IF StatusBeforeLoop(r) # 0
    THEN resp[r].status = StatusBeforeLoop(r) /\ contacted[r] = <<>>
    ELSE \/ /\ resp[r].status = 200
            /\ contacted[r] # <<>>
            /\ resp[r].body.provider = contacted[r][Len(contacted[r])]
         \/ /\ resp[r].status = 503
            /\ Len(contacted[r]) = Cardinality(EligibleIds)

C22_Step ==
    \A r \in Reqs :
        /\ sends'[r] <= 1
        /\ (sends'[r] = 1) <=> (pc'[r] = "done")
        /\ pc'[r] = "done" => OnePerPath(r)'
        /\ pc[r] = "done" =>
               \/ pc'[r] = "idle"
               \/ /\ resp'[r] = resp[r]
                  /\ sends'[r] = sends[r]
                  /\ contacted'[r] = contacted[r]
                  /\ fetched'[r] = fetched[r]

C22_OneResponse == [][C22_Step]_vars

\* the second provider called has answered a request that was not the
\* client's first, and one response has been sent
C22_Witness ==
    /\ pc[1] = "done"
    /\ resp[1].status = 200
    /\ Len(contacted[1]) = 2
    /\ sends[1] = 1
    /\ ordinal[1] > 1

(***************************************************************************)
(* C23: the page has at most one chat request in flight.  A request is     *)
(* sent only by a call of processUserMessage that finds isProcessing       *)
(* false and nothing in flight, and it sets isProcessing; while            *)
(* isProcessing is true, a step that is not the progress of the request in *)
(* flight (a submit, a click, a quick button, the timer of a voice result) *)
(* sends nothing and leaves the history, the chat and the flag as they     *)
(* are; every outcome of the request in flight, a response or an error,    *)
(* sets isProcessing to false, so that the flag is true exactly while a    *)
(* request is in flight.                                                   *)
(***************************************************************************)
C23_Step ==
    /\ calls' # calls =>
           /\ calls' = calls + 1
           /\ ~isProcessing
           /\ at = "ready"
           /\ isProcessing'
    /\ (isProcessing /\ at' = at) =>
           /\ calls' = calls
           /\ outbox' = outbox
           /\ conversationHistory' = conversationHistory
           /\ messagesArea' = messagesArea
           /\ isProcessing'
    /\ (at # "ready" /\ at' = "ready") => ~isProcessing'
    /\ isProcessing' <=> at' # "ready"

C23_OneInFlight == [][C23_Step]_vars

\* a first request has failed and left the page unlocked, a second one is
\* in flight, and a quick button pressed meanwhile has left its text in
\* the input field
C23_Witness ==
    /\ calls = 2
    /\ isProcessing
    /\ at = "json"
    /\ messageInput = QuickMessage
    /\ Len(conversationHistory) = 2
    /\ statusText = "Processing..."

(***************************************************************************)
(* C24: the history sent with a chat request holds only turns from before  *)
(* the current message: it is an end of the conversation as it was before  *)
(* the call.  In the list the backend builds from the request for a        *)
(* chat-completion provider, the last turn is the current message as a     *)
(* user turn, and, unless an earlier turn said the same, no other turn is. *)
(***************************************************************************)
\* turn m is a user turn with the content c
UserTurn(m, c) == Get(m, "role") = JStr("user") /\ Get(m, "content") = c

C24_Step ==
    calls' # calls =>
        LET body == outbox'
            message == Get(body, "message")
            history == HistoryOf(body)
            prior == stringify(JArr(conversationHistory))
            msgs == messages(message, history).a
        IN  /\ history = SliceLast(prior, Len(history.a))
            /\ UserTurn(msgs[Len(msgs)], message)
            /\ (\A k \in 1..Len(prior.a) : ~UserTurn(prior.a[k], message)) =>
                   Cardinality({k \in 1..Len(msgs) : UserTurn(msgs[k], message)}) = 1

C24_HistoryIsPrior == [][C24_Step]_vars
====
